---- MODULE Spec2Model ----
(***************************************************************************)
(* Model of pages/2_Settings_Editor.py: the remote settings editor page.   *)
(*                                                                         *)
(* Python values are tagged records [t |-> tag, v |-> payload]:            *)
(*   "bool"  v \in BOOLEAN          "int"   v \in Int                      *)
(*   "float" v \in Int, the value in hundredths (1.5 is 150)               *)
(*   "str"   v a sequence of characters                                    *)
(*   "none"  v = <<>>               "list"  v a sequence of values         *)
(*   "dict"  v a sequence of entries [k |-> key, val |-> value], in        *)
(*           insertion order (a Python 3.7+ dict)                          *)
(*   "other" a value of a type the page does not know (v names it)         *)
(* A string is a sequence of symbols of a prefix-free alphabet: single     *)
(* characters ("x", "1", "_", " ", "\n", ...) and a few whole words        *)
(* ("prod", "None", ...) that stand for their letters.  "sup2" is the      *)
(* character U+00B2 SUPERSCRIPT TWO.                                       *)
(***************************************************************************)
EXTENDS Integers, Sequences, FiniteSets, TLC

VARIABLES
    bot_api_url_set,        \* BOT_API_URL is configured (line 19)
    PYYAML_AVAILABLE,       \* line 13 / 15
    current_settings_data,  \* st.session_state.current_settings_data
    settings_fetch_error,   \* st.session_state.settings_fetch_error
    session_widgets,        \* st.session_state[widget_key], the edit store
    fetch_cache,            \* st.cache_data entry of fetch_settings_data_from_api
    view,                   \* what the last script run left on the page
    updated_settings,       \* the payload build_updated_settings returned
    st_errors,              \* st.error calls of the last rebuild
    log_warnings,           \* logging.warning calls of the last rebuild
    api_outcome             \* how the last fetch / save call ended

vars == << bot_api_url_set, PYYAML_AVAILABLE, current_settings_data,
           settings_fetch_error, session_widgets, fetch_cache, view,
           updated_settings, st_errors, log_warnings, api_outcome >>

----------------------------------------------------------------------------
(* Python values *)

BoolV(b)  == [t |-> "bool",  v |-> b]
IntV(n)   == [t |-> "int",   v |-> n]
FloatV(h) == [t |-> "float", v |-> h]
StrV(s)   == [t |-> "str",   v |-> s]
NoneV     == [t |-> "none",  v |-> <<>>]
ListV(xs) == [t |-> "list",  v |-> xs]
DictV(es) == [t |-> "dict",  v |-> es]
OtherV(n) == [t |-> "other", v |-> n]
Entry(key, value) == [k |-> key, val |-> value]

isinstance(value, tag) ==
    \* bool is a subclass of int in Python
    IF tag = "int" THEN value.t \in {"int", "bool"} ELSE value.t = tag

----------------------------------------------------------------------------
(* Python string primitives *)

DecDigits == <<"0", "1", "2", "3", "4", "5", "6", "7", "8", "9">>

DigitValue(c) == CHOOSE i \in 0..9 : DecDigits[i + 1] = c

IsDecimalChar(c) == \E i \in 1..10 : DecDigits[i] = c

\* str.isdigit() of one character: decimal digits, and digit characters that
\* are not decimal, such as superscripts.
IsDigitChar(c) == IsDecimalChar(c) \/ c = "sup2"

IsSpaceChar(c) == c \in {" ", "\n", "\t"}

IsLineBreak(c) == c = "\n"

RECURSIVE lstrip(_)
lstrip(s) ==
    IF s # <<>> /\ IsSpaceChar(Head(s)) THEN lstrip(Tail(s)) ELSE s

RECURSIVE rstrip(_)
rstrip(s) ==
    IF s # <<>> /\ IsSpaceChar(s[Len(s)])
    THEN rstrip(SubSeq(s, 1, Len(s) - 1)) ELSE s

strip(s) == rstrip(lstrip(s))

\* str.splitlines(): no empty last line after a final line break.
RECURSIVE SplitLinesFrom(_, _)
SplitLinesFrom(s, cur) ==
    IF s = <<>> THEN (IF cur = <<>> THEN <<>> ELSE <<cur>>)
    ELSE IF IsLineBreak(Head(s)) THEN <<cur>> \o SplitLinesFrom(Tail(s), <<>>)
    ELSE SplitLinesFrom(Tail(s), Append(cur, Head(s)))

splitlines(s) == SplitLinesFrom(s, <<>>)

\* sep.join(parts)
RECURSIVE join(_, _)
join(sep, parts) ==
    IF parts = <<>> THEN <<>>
    ELSE IF Len(parts) = 1 THEN parts[1]
    ELSE parts[1] \o sep \o join(sep, Tail(parts))

isdigit(s) == s # <<>> /\ \A i \in 1..Len(s) : IsDigitChar(s[i])

Lower(c) ==
    CASE c = "INFO"  -> "info"
      [] c = "None"  -> "none"
      [] c = "True"  -> "true"
      [] c = "False" -> "false"
      [] OTHER -> c

lower(s) == [i \in 1..Len(s) |-> Lower(s[i])]

\* str(n) of an int
RECURSIVE StrOfNat(_)
StrOfNat(n) ==
    IF n < 10 THEN <<DecDigits[n + 1]>>
    ELSE Append(StrOfNat(n \div 10), DecDigits[(n % 10) + 1])

StrOfInt(n) == IF n < 0 THEN <<"-">> \o StrOfNat(-n) ELSE StrOfNat(n)

\* str(x) of a float held in hundredths: 1.5 -> "1.5", 2.0 -> "2.0"
StrOfFloat(h) ==
    LET a == IF h < 0 THEN -h ELSE h
        frac == a % 100
        fracs == IF frac % 10 = 0 THEN <<DecDigits[(frac \div 10) + 1]>>
                 ELSE <<DecDigits[(frac \div 10) + 1], DecDigits[(frac % 10) + 1]>>
    IN  (IF h < 0 THEN <<"-">> ELSE <<>>) \o StrOfNat(a \div 100) \o <<".">> \o fracs

RECURSIVE NatOfDigits(_, _)
NatOfDigits(s, acc) ==
    IF s = <<>> THEN acc
    ELSE IF Head(s) = "_" THEN NatOfDigits(Tail(s), acc)
    ELSE NatOfDigits(Tail(s), 10 * acc + DigitValue(Head(s)))

\* The digit part of an int literal: decimal digits, single underscores
\* allowed between digits.
IsDigitPart(s) ==
    /\ s # <<>>
    /\ IsDecimalChar(s[1]) /\ IsDecimalChar(s[Len(s)])
    /\ \A i \in 1..Len(s) : IsDecimalChar(s[i]) \/ s[i] = "_"
    /\ \A i \in 1..(Len(s) - 1) : ~(s[i] = "_" /\ s[i + 1] = "_")

Unsigned(s) == IF s # <<>> /\ Head(s) \in {"-", "+"} THEN Tail(s) ELSE s

Signed(s, n) == IF s # <<>> /\ Head(s) = "-" THEN -n ELSE n

Ok(value) == [exc |-> "none", val |-> value]
Raise(name) == [exc |-> name, val |-> NoneV]

IntOfStripped(t, body) ==
    IF IsDigitPart(body) THEN Ok(IntV(Signed(t, NatOfDigits(body, 0))))
    ELSE Raise("ValueError")

IntOfUnsigned(t) == IntOfStripped(t, Unsigned(t))

\* int(s) of a str: surrounding whitespace and a sign are accepted.
IntOfStr(s) == IntOfUnsigned(strip(s))

IndexOfDot(s) == IF \E i \in 1..Len(s) : s[i] = "."
                 THEN CHOOSE i \in 1..Len(s) : s[i] = "." /\ \A j \in 1..(i - 1) : s[j] # "."
                 ELSE 0

FractionValue(fp) ==
    IF fp = <<>> THEN 0
    ELSE IF Len(fp) = 1 THEN 10 * DigitValue(fp[1])
    ELSE 10 * DigitValue(fp[1]) + DigitValue(fp[2])

IsFractionPart(fp) ==
    fp = <<>> \/ (Len(fp) <= 2 /\ \A i \in 1..Len(fp) : IsDecimalChar(fp[i]))

IsIntegerPart(ip) == ip = <<>> \/ IsDigitPart(ip)

FloatOfParts(t, ip, fp) ==
    IF IsIntegerPart(ip) /\ IsFractionPart(fp) /\ (ip # <<>> \/ fp # <<>>)
    THEN Ok(FloatV(Signed(t, 100 * NatOfDigits(ip, 0) + FractionValue(fp))))
    ELSE Raise("ValueError")

FloatOfBody(t, body, dot) ==
    FloatOfParts(t, IF dot = 0 THEN body ELSE SubSeq(body, 1, dot - 1),
                    IF dot = 0 THEN <<>> ELSE SubSeq(body, dot + 1, Len(body)))

FloatOfUnsigned(t, body) == FloatOfBody(t, body, IndexOfDot(body))

FloatOfStripped(t) == FloatOfUnsigned(t, Unsigned(t))

\* float(s) of a str, for decimal literals with at most two fraction digits
\* (the alphabet has no exponent, "nan" or "inf").
FloatOfStr(s) == FloatOfStripped(strip(s))

----------------------------------------------------------------------------
(* Python built-in conversions of an arbitrary value *)

RECURSIVE py_repr(_)
RECURSIVE ReprItems(_)
RECURSIVE ReprPairs(_)

\* repr(value); a str is shown in single quotes (the strings of the model hold
\* no quote, backslash or line break inside a list).
py_repr(value) ==
    CASE value.t = "bool"  -> IF value.v THEN <<"True">> ELSE <<"False">>
      [] value.t = "int"   -> StrOfInt(value.v)
      [] value.t = "float" -> StrOfFloat(value.v)
      [] value.t = "str"   -> <<"'">> \o value.v \o <<"'">>
      [] value.t = "none"  -> <<"None">>
      [] value.t = "list"  -> <<"[">> \o ReprItems(value.v) \o <<"]">>
      [] value.t = "dict"  -> <<"{">> \o ReprPairs(value.v) \o <<"}">>
      [] OTHER             -> <<"<", value.v, ">">>

ReprItems(xs) ==
    IF xs = <<>> THEN <<>>
    ELSE IF Len(xs) = 1 THEN py_repr(xs[1])
    ELSE py_repr(xs[1]) \o <<",", " ">> \o ReprItems(Tail(xs))

ReprPairs(es) ==
    IF es = <<>> THEN <<>>
    ELSE LET one == <<"'">> \o es[1].k \o <<"'", ":", " ">> \o py_repr(es[1].val)
         IN  IF Len(es) = 1 THEN one
             ELSE one \o <<",", " ">> \o ReprPairs(Tail(es))

\* str(value)
py_str(value) == IF value.t = "str" THEN value.v ELSE py_repr(value)

\* bool(value): truthiness
py_bool(value) ==
    CASE value.t = "bool"  -> value.v
      [] value.t = "int"   -> value.v # 0
      [] value.t = "float" -> value.v # 0
      [] value.t = "none"  -> FALSE
      [] value.t \in {"str", "list", "dict"} -> value.v # <<>>
      [] OTHER             -> TRUE

Trunc(h) == IF h < 0 THEN -((-h) \div 100) ELSE h \div 100

\* The int branch if the widget value were assigned without int().
py_int_unconverted(value) == Ok(value)

\* int(value): ValueError for a str that is no int literal, TypeError for a
\* value that is no number and no str.
py_int(value) ==
    CASE value.t = "bool"  -> Ok(IntV(IF value.v THEN 1 ELSE 0))
      [] value.t = "int"   -> Ok(value)
      [] value.t = "float" -> Ok(IntV(Trunc(value.v)))
      [] value.t = "str"   -> IntOfStr(value.v)
      [] OTHER             -> Raise("TypeError")

\* float(value)
py_float(value) ==
    CASE value.t = "bool"  -> Ok(FloatV(IF value.v THEN 100 ELSE 0))
      [] value.t = "int"   -> Ok(FloatV(100 * value.v))
      [] value.t = "float" -> Ok(value)
      [] value.t = "str"   -> FloatOfStr(value.v)
      [] OTHER             -> Raise("TypeError")

StrList(xs) == [i \in 1..Len(xs) |-> py_str(xs[i])]

NonEmpty(lines) == SelectSeq(lines, LAMBDA l : l # <<>>)

StripAll(lines) == [i \in 1..Len(lines) |-> strip(lines[i])]

----------------------------------------------------------------------------
(* PyYAML, for the documents session_types meets: a block sequence of flat  *)
(* mappings or scalars, a one-line flow sequence of scalars, a scalar.      *)
(* Mapping keys are taken in sorted order, as dump() writes them.           *)

StartsWith(s, p) == Len(s) >= Len(p) /\ SubSeq(s, 1, Len(p)) = p

Drop(s, n) == SubSeq(s, n + 1, Len(s))

\* First index of p in s, 0 when absent.
FindSub(s, p) ==
    LET hits == {i \in 1..(Len(s) - Len(p) + 1) : SubSeq(s, i, i + Len(p) - 1) = p}
    IN  IF hits = {} THEN 0 ELSE CHOOSE i \in hits : \A j \in hits : i <= j

RECURSIVE SplitOn(_, _, _)
SplitOn(s, c, cur) ==
    IF s = <<>> THEN <<cur>>
    ELSE IF Head(s) = c THEN <<cur>> \o SplitOn(Tail(s), c, <<>>)
    ELSE SplitOn(Tail(s), c, Append(cur, Head(s)))

IsOctalPart(s) ==
    /\ Len(s) >= 2 /\ s[1] = "0"
    /\ \A i \in 1..Len(s) : IsDecimalChar(s[i]) /\ DigitValue(s[i]) <= 7

RECURSIVE NatOfOctal(_, _)
NatOfOctal(s, acc) ==
    IF s = <<>> THEN acc ELSE NatOfOctal(Tail(s), 8 * acc + DigitValue(Head(s)))

IsYamlInt(body) ==
    /\ body # <<>> /\ IsDecimalChar(body[1]) /\ body[1] # "0"
    /\ \A i \in 1..Len(body) : IsDecimalChar(body[i]) \/ body[i] = "_"

IsYamlFloat(body, as_float) ==
    /\ IndexOfDot(body) > 0 /\ as_float.exc = "none"
    /\ \A i \in 1..Len(body) : IsDecimalChar(body[i]) \/ body[i] = "."

ResolveBody(s, body, as_float) ==
    CASE s \in {<<>>, <<"~">>, <<"null">>} -> NoneV
      [] s \in {<<"true">>, <<"True">>}    -> BoolV(TRUE)
      [] s \in {<<"false">>, <<"False">>}  -> BoolV(FALSE)
      [] body = <<"0">>                    -> IntV(0)
      [] IsOctalPart(body)                 -> IntV(Signed(s, NatOfOctal(body, 0)))
      [] IsYamlInt(body)                   -> IntV(Signed(s, NatOfDigits(body, 0)))
      [] IsYamlFloat(body, as_float)       -> as_float.val
      [] OTHER                             -> StrV(s)

\* The YAML 1.1 implicit type of a plain scalar, as PyYAML's SafeLoader
\* resolves it.
yaml_resolve(s) == ResolveBody(s, Unsigned(s), FloatOfStr(s))

IsQuoted(s) == Len(s) >= 2 /\ s[1] = "'" /\ s[Len(s)] = "'"

\* A scalar node: single-quoted text is a str, plain text is resolved.
yaml_scalar(s) ==
    IF IsQuoted(s) THEN StrV(SubSeq(s, 2, Len(s) - 1)) ELSE yaml_resolve(s)

NeedsQuotes(value, resolved) ==
    \/ resolved # value
    \/ value.v # <<>> /\ (IsSpaceChar(value.v[1]) \/ IsSpaceChar(value.v[Len(value.v)]))
    \/ \E i \in 1..Len(value.v) : value.v[i] \in {":", "-", "[", "]", ",", "'"}

\* dump() of a scalar: a str that would not load back as itself is quoted.
yaml_represent(value) ==
    CASE value.t = "none"  -> <<"null">>
      [] value.t = "bool"  -> IF value.v THEN <<"true">> ELSE <<"false">>
      [] value.t = "str"   ->
            IF NeedsQuotes(value, yaml_resolve(value.v))
            THEN <<"'">> \o value.v \o <<"'">> ELSE value.v
      [] OTHER             -> py_repr(value)

RECURSIVE DumpPairs(_, _)
DumpPairs(es, first) ==
    IF es = <<>> THEN <<>>
    ELSE (IF first THEN <<>> ELSE <<" ", " ">>)
         \o es[1].k \o <<":", " ">> \o yaml_represent(es[1].val) \o <<"\n">>
         \o DumpPairs(Tail(es), FALSE)

RECURSIVE DumpItems(_)
DumpItems(xs) ==
    IF xs = <<>> THEN <<>>
    ELSE (IF xs[1].t = "dict" /\ xs[1].v # <<>>
          THEN <<"-", " ">> \o DumpPairs(xs[1].v, TRUE)
          ELSE <<"-", " ">> \o yaml_represent(xs[1]) \o <<"\n">>)
         \o DumpItems(Tail(xs))

\* pyyaml.dump(value, indent=2, default_flow_style=False) of a list
yaml_dump(value) ==
    IF value.v = <<>> THEN <<"[", "]", "\n">> ELSE DumpItems(value.v)

\* "key: text" -> the entry, for a line that holds ": " at index i
PairAt(line, i) ==
    Entry(SubSeq(line, 1, i - 1), yaml_scalar(strip(Drop(line, i + 1))))

IsPair(line) == FindSub(line, <<":", " ">>) > 1

IsItemLine(line) == StartsWith(line, <<"-", " ">>) \/ line = <<"-">>

IsContinuation(line) == StartsWith(line, <<" ", " ">>) /\ IsPair(strip(line))

\* A node of a line: the pair of a "key: text" line (as an entry), else the
\* scalar.
LineNode(body, i) ==
    IF i > 1 THEN [pair |-> TRUE, entry |-> PairAt(body, i)]
    ELSE [pair |-> FALSE, entry |-> Entry(<<>>, yaml_scalar(body))]

LineNodeOf(body) == LineNode(body, FindSub(body, <<":", " ">>))

AddNode(acc, is_item, node) ==
    IF is_item
    THEN Append(acc, IF node.pair THEN DictV(<<node.entry>>) ELSE node.entry.val)
    ELSE [acc EXCEPT ![Len(acc)] = DictV(Append(acc[Len(acc)].v, node.entry))]

\* The items of a block sequence; every line is an item line or the
\* continuation of a mapping item.
RECURSIVE BlockItems(_, _)
BlockItems(lines, acc) ==
    IF lines = <<>> THEN acc
    ELSE BlockItems(Tail(lines),
            AddNode(acc, IsItemLine(lines[1]),
                    LineNodeOf(strip(IF IsItemLine(lines[1]) THEN Drop(lines[1], 1)
                                     ELSE lines[1]))))

BlockOk(lines) ==
    /\ IsItemLine(lines[1])
    /\ \A i \in 1..Len(lines) :
          \/ IsItemLine(lines[i])
          \/ /\ IsContinuation(lines[i])
             /\ i > 1
             /\ \/ IsContinuation(lines[i - 1])
                \/ IsItemLine(lines[i - 1]) /\ IsPair(strip(Drop(lines[i - 1], 1)))

DropLastEmpty(parts) ==
    IF parts[Len(parts)] = <<>> THEN SubSeq(parts, 1, Len(parts) - 1) ELSE parts

FlowOf(kept) ==
    IF \A i \in 1..Len(kept) : kept[i] # <<>>
    THEN Ok(ListV([i \in 1..Len(kept) |-> yaml_scalar(kept[i])]))
    ELSE Raise("YAMLError")

\* "[a, b]": the items between the brackets
FlowSequence(one) ==
    IF one[Len(one)] = "]"
    THEN FlowOf(DropLastEmpty(StripAll(SplitOn(SubSeq(one, 2, Len(one) - 1), ",", <<>>))))
    ELSE Raise("YAMLError")

NodesOf(lines) == [i \in 1..Len(lines) |-> LineNodeOf(lines[i])]

MappingOf(nodes) == DictV([i \in 1..Len(nodes) |-> nodes[i].entry])

LoadLines(lines) ==
    IF lines = <<>> THEN Ok(NoneV)
    ELSE IF BlockOk(lines) THEN Ok(ListV(BlockItems(lines, <<>>)))
    ELSE IF \E i \in 1..Len(lines) : IsItemLine(lines[i]) THEN Raise("YAMLError")
    ELSE IF Len(lines) = 1 /\ StartsWith(strip(lines[1]), <<"[">>)
         THEN FlowSequence(strip(lines[1]))
    ELSE IF \A i \in 1..Len(lines) : IsPair(lines[i]) /\ ~IsSpaceChar(lines[i][1])
         THEN Ok(MappingOf(NodesOf(lines)))
    ELSE IF \E i \in 1..Len(lines) :
                IsPair(strip(lines[i])) \/ StartsWith(strip(lines[i]), <<"[">>)
         THEN Raise("YAMLError")
    ELSE Ok(yaml_scalar(join(<<" ">>, StripAll(lines))))

\* pyyaml.safe_load(text): the value, or YAMLError.
yaml_safe_load(text) ==
    LoadLines(SelectSeq(splitlines(text), LAMBDA l : strip(l) # <<>>))

----------------------------------------------------------------------------
(* Setting keys the page treats specially *)

K_mode           == <<"mode">>
K_log_level      == <<"log", "_", "level">>
K_group_id       == <<"group", "_", "id">>
K_sender_email   == <<"sender", "_", "email">>
K_ad_identifiers == <<"ad", "_", "identifiers">>
K_skip_senders   == <<"regular", "_", "engagement", "_", "skip", "_", "senders">>
K_serial_numbers == <<"serial", "_", "numbers">>
K_session_types  == <<"session", "_", "types">>

string_list_keys == {K_sender_email, K_ad_identifiers, K_skip_senders}

list_keys_textarea == string_list_keys \cup {K_serial_numbers}

\* unique_key / widget_key: '_'.join(map(str, key_path))
unique_key(key_path) == join(<<"_">>, key_path)

----------------------------------------------------------------------------
(* render_setting: the widgets it creates, each with the value it is given *)

Widget(key_path, kind, value, disabled) ==
    [key |-> unique_key(key_path), kind |-> kind, value |-> value,
     disabled |-> disabled]

mode_options == << <<"prod">>, <<"dev">> >>

log_level_options ==
    << <<"debug">>, <<"info">>, <<"warning">>, <<"error">>, <<"critical">> >>

InOptions(options, s) == \E i \in 1..Len(options) : options[i] = s

all_items_dict(value) == \A i \in 1..Len(value.v) : value.v[i].t = "dict"

\* The widget of a leaf (lines 89-138, 142-147).
LeafWidget(key_path, value, yaml) ==
    LET key == key_path[Len(key_path)]
    IN  CASE value.t = "bool"  -> Widget(key_path, "checkbox", value, FALSE)
          [] value.t = "int"   -> Widget(key_path, "number_input", value, FALSE)
          [] value.t = "float" -> Widget(key_path, "number_input", value, FALSE)
          [] value.t = "str" /\ key = K_mode ->
                Widget(key_path, "selectbox",
                       StrV(IF InOptions(mode_options, value.v) THEN value.v
                            ELSE mode_options[1]), FALSE)
          [] value.t = "str" /\ key = K_log_level ->
                Widget(key_path, "selectbox",
                       StrV(IF InOptions(log_level_options, lower(value.v))
                            THEN lower(value.v) ELSE log_level_options[2]), FALSE)
          [] value.t = "str" /\ key \notin {K_mode, K_log_level} ->
                Widget(key_path, "text_input", StrV(py_str(value)), FALSE)
          [] value.t = "list" /\ key \in list_keys_textarea ->
                Widget(key_path, "text_area",
                       StrV(join(<<"\n">>, StrList(value.v))), FALSE)
          [] value.t = "list" /\ key \notin list_keys_textarea
             /\ key = K_session_types /\ yaml /\ all_items_dict(value) ->
                Widget(key_path, "text_area", StrV(yaml_dump(value)), FALSE)
          [] value.t = "list" /\ key \notin list_keys_textarea
             /\ ~(key = K_session_types /\ yaml /\ all_items_dict(value)) ->
                Widget(key_path, "text_input", StrV(py_str(value)), TRUE)
          [] value.t = "none" /\ key = K_group_id ->
                Widget(key_path, "text_input", StrV(<<>>), FALSE)
          [] value.t = "none" /\ key # K_group_id ->
                Widget(key_path, "text_input", StrV(<<"None">>), TRUE)
          [] OTHER -> Widget(key_path, "text_input", StrV(py_str(value)), TRUE)

RECURSIVE render_setting(_, _, _)
RECURSIVE RenderItems(_, _, _)

render_setting(key_path, value, yaml) ==
    IF value.t = "dict" THEN RenderItems(key_path, value.v, yaml)
    ELSE <<LeafWidget(key_path, value, yaml)>>

\* line 141: for sub_key, sub_value in value.items()
RenderItems(key_path, entries, yaml) ==
    IF entries = <<>> THEN <<>>
    ELSE render_setting(Append(key_path, entries[1].k), entries[1].val, yaml)
         \o RenderItems(key_path, Tail(entries), yaml)

----------------------------------------------------------------------------
(* build_updated_settings *)

Built(value, errs, warns) == [val |-> value, errs |-> errs, warns |-> warns]

StError(key, exc) == [field |-> key, exc |-> exc]

Warning(widget_key, what, text) ==
    [widget_key |-> widget_key, what |-> what, text |-> text]

LoopResult(exc, value, warns) == [exc |-> exc, val |-> value, warns |-> warns]

\* lines 179-187: the loop over the lines of the text block.  int() of a line
\* that isdigit() accepts raises ValueError when a digit is not decimal; the
\* warnings logged before that stay logged.
RECURSIVE serial_numbers_loop(_, _, _, _)
RECURSIVE serial_numbers_line(_, _, _, _, _)
RECURSIVE serial_numbers_append(_, _, _, _, _)

\* line 184: processed_list.append(int(stripped_line))
serial_numbers_append(lines, widget_key, processed_list, warns, parsed) ==
    IF parsed.exc = "none"
    THEN serial_numbers_loop(Tail(lines), widget_key,
                             Append(processed_list, parsed.val), warns)
    ELSE LoopResult(parsed.exc, NoneV, warns)

serial_numbers_line(lines, widget_key, processed_list, warns, stripped_line) ==
    IF isdigit(stripped_line)
    THEN serial_numbers_append(lines, widget_key, processed_list, warns,
                               IntOfStr(stripped_line))
    ELSE IF stripped_line # <<>>
    THEN serial_numbers_loop(Tail(lines), widget_key, processed_list,
            Append(warns, Warning(widget_key, "invalid_serial", stripped_line)))
    ELSE serial_numbers_loop(Tail(lines), widget_key, processed_list, warns)

serial_numbers_loop(lines, widget_key, processed_list, warns) ==
    IF lines = <<>> THEN LoopResult("none", ListV(processed_list), warns)
    ELSE serial_numbers_line(lines, widget_key, processed_list, warns, strip(lines[1]))

WithWarns(r, warns) == LoopResult(r.exc, r.val, warns)

StrItems(lines) == ListV([i \in 1..Len(lines) |-> StrV(lines[i])])

\* line 190
list_or_original(parsed_yaml, original_value) ==
    IF parsed_yaml.exc # "none" THEN WithWarns(parsed_yaml, <<>>)
    ELSE WithWarns(Ok(IF parsed_yaml.val.t = "list" THEN parsed_yaml.val
                      ELSE original_value), <<>>)

\* line 170: the text if it is not empty, else None
str_or_none(stripped) == IF stripped # <<>> THEN StrV(stripped) ELSE NoneV

\* lines 169-198, with text = str(widget_value)
convert_text(key, original_value, widget_key, widget_value, text, yaml) ==
    CASE key = K_group_id -> WithWarns(Ok(str_or_none(strip(text))), <<>>)
      [] original_value.t = "str" /\ key # K_group_id ->
            WithWarns(Ok(StrV(text)), <<>>)
      [] original_value.t = "list" /\ key # K_group_id ->
            IF key \in string_list_keys
            THEN WithWarns(Ok(StrItems(NonEmpty(StripAll(splitlines(text))))), <<>>)
            ELSE IF key = K_serial_numbers
            THEN serial_numbers_loop(splitlines(text), widget_key, <<>>, <<>>)
            ELSE IF key = K_session_types /\ yaml
            THEN list_or_original(yaml_safe_load(text), original_value)
            ELSE WithWarns(Ok(original_value),
                           <<Warning(widget_key, "no_parser", <<>>)>>)
      [] original_value.t = "none" /\ key # K_group_id ->
            WithWarns(Ok(NoneV), <<>>)
      [] OTHER ->
            WithWarns(Ok(widget_value), <<Warning(widget_key, "unhandled_type", <<>>)>>)

\* lines 163-198: the body of the try block; exc names what it raised.
convert_widget_value(key, original_value, widget_key, widget_value, yaml) ==
    CASE original_value.t = "bool" ->
            WithWarns(Ok(BoolV(py_bool(widget_value))), <<>>)
      [] original_value.t = "int" -> WithWarns(py_int(widget_value), <<>>)
      [] original_value.t = "float" -> WithWarns(py_float(widget_value), <<>>)
      [] OTHER -> convert_text(key, original_value, widget_key, widget_value,
                               py_str(widget_value), yaml)

\* lines 199-206: the except clauses, or the value of the try block
restore_on_error(key, original_value, widget_key, r) ==
    IF r.exc = "none" THEN Built(r.val, <<>>, r.warns)
    ELSE IF r.exc = "ValueError"
    THEN Built(original_value, <<StError(key, "ValueError")>>,
               Append(r.warns, Warning(widget_key, "ValueError", <<>>)))
    ELSE Built(original_value, <<StError(key, "Exception")>>,
               Append(r.warns, Warning(widget_key, "Exception", <<>>)))

\* lines 160-208: one leaf of the original mapping.
rebuild_leaf(key, original_value, widget_key, session_state, yaml) ==
    IF widget_key \in DOMAIN session_state
    THEN restore_on_error(key, original_value, widget_key,
            convert_widget_value(key, original_value, widget_key,
                                 session_state[widget_key], yaml))
    ELSE Built(original_value, <<>>, <<>>)

\* The loop if a refused leaf were left unassigned instead of restored.
put_item_unless_refused(key, one, rest) ==
    IF one.errs # <<>>
    THEN Built(rest.val, one.errs \o rest.errs, one.warns \o rest.warns)
    ELSE Built(<<Entry(key, one.val)>> \o rest.val, one.errs \o rest.errs,
               one.warns \o rest.warns)

\* updated_dict[key] = ..., in front of the rest of the loop
put_item(key, one, rest) ==
    Built(<<Entry(key, one.val)>> \o rest.val, one.errs \o rest.errs,
          one.warns \o rest.warns)

AsDict(r) == Built(DictV(r.val), r.errs, r.warns)

RECURSIVE build_updated_settings(_, _, _, _)
RECURSIVE rebuild_items(_, _, _, _)
RECURSIVE rebuild_item(_, _, _, _, _)

\* lines 155-208: one pass of the loop over original_data_structure.items()
rebuild_item(key, original_value, current_key_path, session_state, yaml) ==
    IF original_value.t = "dict"
    THEN build_updated_settings(original_value, current_key_path, session_state, yaml)
    ELSE rebuild_leaf(key, original_value, unique_key(current_key_path),
                      session_state, yaml)

\* lines 154-209: the loop
rebuild_items(entries, key_path, session_state, yaml) ==
    IF entries = <<>> THEN Built(<<>>, <<>>, <<>>)
    ELSE put_item(entries[1].k,
                  rebuild_item(entries[1].k, entries[1].val,
                               Append(key_path, entries[1].k), session_state, yaml),
                  rebuild_items(Tail(entries), key_path, session_state, yaml))

build_updated_settings(original_data_structure, key_path, session_state, yaml) ==
    IF original_data_structure.t = "dict"
    THEN AsDict(rebuild_items(original_data_structure.v, key_path, session_state, yaml))
    ELSE Built(original_data_structure, <<>>, <<>>)

----------------------------------------------------------------------------
(* The backend API.  A response is [kind, body]:                            *)
(*   "no_response"  timeout or connection failure (a RequestException)      *)
(*   "http_error"   a non-2xx status; raise_for_status() raises HTTPError   *)
(*   "malformed"    2xx, the body is no JSON; response.json() raises        *)
(*   "json"         2xx, body is the decoded JSON value                     *)

Response(kind, body) == [kind |-> kind, body |-> body]

FetchResult(data, error) == [raised |-> FALSE, data |-> data, error |-> error]

\* lines 26-48
fetch_settings_data_from_api(url_set, response) ==
    IF ~url_set
    THEN FetchResult(NoneV, StrV(<<"BOT_API_URL secret is not configured.">>))
    ELSE CASE response.kind \in {"no_response", "http_error"} ->
                FetchResult(NoneV, StrV(<<"API Error fetching settings">>))
           [] response.kind = "malformed" ->
                FetchResult(NoneV, StrV(<<"Invalid settings JSON response from API.">>))
           [] response.kind = "json" /\ response.body.t = "dict" ->
                FetchResult(response.body, NoneV)
           [] OTHER ->
                FetchResult(NoneV, StrV(<<"API Error: Invalid settings format received.">>))

SaveResult(raised, ok, message) == [raised |-> raised, ok |-> ok, message |-> message]

\* dict.get(key, default)
dict_get(d, key, default) ==
    IF \E i \in 1..Len(d.v) : d.v[i].k = key
    THEN d.v[CHOOSE i \in 1..Len(d.v) : d.v[i].k = key].val
    ELSE default

\* lines 50-66.  response.json().get(...) of a body that is no dict raises
\* AttributeError, which neither except clause catches.
save_settings_via_api(url_set, settings_data, response) ==
    IF ~url_set
    THEN SaveResult(FALSE, FALSE, StrV(<<"BOT_API_URL not set.">>))
    ELSE CASE response.kind \in {"no_response", "http_error"} ->
                SaveResult(FALSE, FALSE, StrV(<<"API Error saving settings">>))
           [] response.kind = "malformed" ->
                SaveResult(FALSE, FALSE, StrV(<<"Invalid JSON response from API after saving.">>))
           [] response.kind = "json" /\ response.body.t = "dict" ->
                SaveResult(FALSE, TRUE,
                           dict_get(response.body, <<"message">>,
                                    StrV(<<"Settings saved successfully.">>)))
           [] OTHER -> SaveResult(TRUE, FALSE, StrV(<<"AttributeError">>))

----------------------------------------------------------------------------
(* The form of the page (lines 249-275) and the widget state *)

common_keys ==
    << <<"global">>, <<"google", "_", "sheets">>, <<"newsletters">>,
       <<"engagement">>, <<"query", "_", "settings">> >>

IsCommonKey(key) == \E i \in 1..Len(common_keys) : common_keys[i] = key

HasKey(d, key) == \E i \in 1..Len(d.v) : d.v[i].k = key

RECURSIVE RenderCommon(_, _, _)
RenderCommon(keys, settings, yaml) ==
    IF keys = <<>> THEN <<>>
    ELSE (IF HasKey(settings, keys[1])
          THEN render_setting(<<keys[1]>>, dict_get(settings, keys[1], NoneV), yaml)
          ELSE <<>>)
         \o RenderCommon(Tail(keys), settings, yaml)

\* lines 255-272: the common sections first, then every other top-level key.
render_form(settings, yaml) ==
    RenderCommon(common_keys, settings, yaml)
    \o RenderItems(<<>>, SelectSeq(settings.v, LAMBDA e : ~IsCommonKey(e.k)), yaml)

WidgetKeys(widgets) == {widgets[i].key : i \in 1..Len(widgets)}

\* Streamlit refuses a second widget with a key already used in the run.
DuplicateWidgetKey(widgets) ==
    \E i, j \in 1..Len(widgets) : i # j /\ widgets[i].key = widgets[j].key

WidgetOf(widgets, key) ==
    widgets[CHOOSE i \in 1..Len(widgets) : widgets[i].key = key]

\* The widget state after a run that created `widgets`: a widget keeps the
\* value it has in session state, a new one takes the value it was given.
WidgetState(widgets, old) ==
    [key \in WidgetKeys(widgets) |->
        IF key \in DOMAIN old THEN old[key] ELSE WidgetOf(widgets, key).value]

NoWidgets == [key \in {} |-> NoneV]

----------------------------------------------------------------------------
(* Bounds and the inputs drawn within them *)

MaxNest == 2        \* sections around a leaf: 0..MaxNest
MaxLines == 2       \* lines of an edited text block: 1..MaxLines

Xyz == <<"x", "y", "z">>

LeafCases ==
    { Entry(<<"enabled">>, BoolV(TRUE)),
      Entry(<<"threads">>, IntV(2)),
      Entry(<<"rate">>, FloatV(50)),
      Entry(K_mode, StrV(<<"prod">>)),
      Entry(K_mode, StrV(<<"staging">>)),
      Entry(K_log_level, StrV(<<"INFO">>)),
      Entry(K_group_id, StrV(Xyz)),
      Entry(K_group_id, StrV(<<>>)),
      Entry(K_group_id, NoneV),
      Entry(<<"name">>, StrV(<<"x", "y">>)),
      Entry(K_sender_email, ListV(<<StrV(<<"x">>), StrV(<<"y">>)>>)),
      Entry(K_ad_identifiers, ListV(<<StrV(<<" ", "x">>)>>)),
      Entry(K_serial_numbers, ListV(<<IntV(1), IntV(2)>>)),
      Entry(K_session_types, ListV(<<DictV(<<Entry(<<"x">>, IntV(1))>>)>>)),
      Entry(K_session_types, ListV(<<IntV(1)>>)),
      Entry(K_session_types, ListV(<<NoneV>>)),
      Entry(<<"tags">>, ListV(<<StrV(<<"x">>)>>)),
      Entry(<<"note">>, NoneV),
      Entry(<<"blob">>, OtherV("bytes")) }

SectionKey(level) == IF level = 1 THEN <<"global">> ELSE <<"sub">>

\* entries under n nested sections: global, then sub, sub, ...
RECURSIVE Wrap(_, _, _)
Wrap(level, n, entries) ==
    IF level > n THEN DictV(entries)
    ELSE DictV(<<Entry(SectionKey(level), Wrap(level + 1, n, entries))>>)

Nest(n, entries) == Wrap(1, n, entries)

SingleTrees == {Nest(n, <<e>>) : n \in 0..MaxNest, e \in LeafCases}

PairCases ==
    { Entry(<<"threads">>, IntV(2)),
      Entry(<<"rate">>, FloatV(50)),
      Entry(<<"name">>, StrV(<<"x", "y">>)),
      Entry(K_serial_numbers, ListV(<<IntV(1), IntV(2)>>)) }

PairTrees ==
    {DictV(<<e1, Entry(<<"global">>, DictV(<<e2>>))>>) : e1 \in PairCases, e2 \in PairCases}

\* Keys of letters, digits and underscore whose paths join to one identifier.
UnderscoreTrees ==
    { DictV(<<Entry(<<"x", "_", "y">>, IntV(5)),
              Entry(<<"x">>, DictV(<<Entry(<<"y">>, StrV(<<"x">>))>>))>>),
      DictV(<<Entry(<<"x">>, DictV(<<Entry(<<"y", "_", "z">>, IntV(5))>>)),
              Entry(<<"x", "_", "y">>, DictV(<<Entry(<<"z">>, FloatV(50))>>))>>) }

EmptyTrees == {DictV(<<>>), DictV(<<Entry(<<"global">>, DictV(<<>>))>>)}

Trees == SingleTrees \cup PairTrees \cup UnderscoreTrees \cup EmptyTrees

TextLines ==
    { <<"3">>, <<"x", "x">>, <<" ", "4", " ">>, <<>>, <<"sup2">>, <<"-", " ", "2">> }

RECURSIVE TextBlocks(_)
TextBlocks(n) ==
    IF n = 1 THEN TextLines
    ELSE LET shorter == TextBlocks(n - 1)
         IN  shorter \cup {b \o <<"\n">> \o l : b \in shorter, l \in TextLines}

\* Widget values of every kind a widget can hold.
CoreValues ==
    { BoolV(TRUE), BoolV(FALSE), IntV(0), IntV(3), FloatV(370), NoneV,
      StrV(<<>>), StrV(Xyz), StrV(<<"7">>), StrV(<<"1", ".", "5">>) }

WidgetValues ==
    CoreValues
    \cup {StrV(b) : b \in TextBlocks(MaxLines)}
    \cup { StrV(<<"dev">>), StrV(<<"[", "2", "]">>), StrV(<<"[", "2">>),
           StrV(<<"-", " ", "x", ":", " ", "2", "\n">>),
           ListV(<<StrV(<<"x">>)>>) }

----------------------------------------------------------------------------
(* The page: one session, each action a user event run to rest (st.rerun   *)
(* restarts the script at once, so the reruns belong to the event).        *)

NoCache == [raised |-> FALSE, data |-> NoneV, error |-> NoneV]

RemoteTrees ==
    { DictV(<<>>),
      DictV(<<Entry(K_mode, StrV(<<"staging">>))>>),
      DictV(<<Entry(<<"global">>, DictV(<<Entry(<<"threads">>, IntV(2)),
                                          Entry(K_mode, StrV(<<"prod">>))>>))>>),
      DictV(<<Entry(K_serial_numbers, ListV(<<IntV(1), IntV(2)>>)),
              Entry(<<"tags">>, ListV(<<StrV(<<"x">>)>>))>>) }

FailedResponses ==
    { Response("no_response", NoneV), Response("http_error", NoneV),
      Response("malformed", NoneV) }

FetchResponses ==
    FailedResponses
    \cup {Response("json", ListV(<<>>))}
    \cup {Response("json", t) : t \in RemoteTrees}

SaveResponses ==
    FailedResponses
    \cup { Response("json", ListV(<<>>)), Response("json", DictV(<<>>)),
           Response("json", DictV(<<Entry(<<"message">>, StrV(<<"saved">>))>>)) }

\* What the user can put into an enabled widget of each kind.
UserValues(widget) ==
    CASE widget.kind = "checkbox" -> {BoolV(TRUE), BoolV(FALSE)}
      [] widget.kind = "number_input" ->
            IF widget.value.t = "int" THEN {IntV(1), IntV(3)} ELSE {FloatV(25)}
      [] widget.kind = "selectbox" ->
            {StrV(<<"prod">>), StrV(<<"dev">>)}
      [] OTHER ->
            {StrV(<<>>), StrV(Xyz), StrV(<<"3", "\n", "x", "x", "\n", "4">>)}

Init ==
    /\ bot_api_url_set \in BOOLEAN
    /\ PYYAML_AVAILABLE \in BOOLEAN
    /\ current_settings_data = NoneV
    /\ settings_fetch_error = NoneV
    /\ session_widgets = NoWidgets
    /\ fetch_cache = NoCache
    /\ view = "start"
    /\ updated_settings = NoneV
    /\ st_errors = <<>>
    /\ log_warnings = <<>>
    /\ api_outcome = [fetch |-> "none", save |-> "none"]

\* lines 239-298 with the session state holding (data, error)
Display(data, error, old_widgets) ==
    IF py_bool(error)
    THEN view' = "error" /\ session_widgets' = NoWidgets
    ELSE IF py_bool(data)
    THEN /\ view' = "form"
         /\ session_widgets' = WidgetState(render_form(data, PYYAML_AVAILABLE), old_widgets)
    ELSE view' = "waiting" /\ session_widgets' = NoWidgets

\* lines 231-237: the result into the session state, then the rerun
StoreAndDisplay(result, save) ==
    /\ fetch_cache' = result
    /\ IF py_bool(result.error)
       THEN /\ settings_fetch_error' = result.error
            /\ current_settings_data' = NoneV
       ELSE /\ current_settings_data' = result.data
            /\ settings_fetch_error' = NoneV
    /\ api_outcome' = [fetch |-> IF py_bool(result.error) THEN "error" ELSE "data",
                       save |-> save]
    /\ Display(IF py_bool(result.error) THEN NoneV ELSE result.data,
               IF py_bool(result.error) THEN result.error ELSE NoneV, NoWidgets)

\* lines 228-237 with both session values None: the cached result if
\* st.cache_data holds one, else a request that `response` answers.
LoadAndDisplay(cache, response, save) ==
    StoreAndDisplay(IF cache # NoCache THEN cache
                    ELSE fetch_settings_data_from_api(bot_api_url_set, response),
                    save)

\* The first run of the script in the session (lines 213-305).
PageLoad ==
    /\ view = "start"
    /\ IF ~bot_api_url_set
       THEN /\ view' = "no_url"
            /\ UNCHANGED << current_settings_data, settings_fetch_error,
                            session_widgets, fetch_cache, api_outcome >>
       ELSE \E response \in FetchResponses :
                LoadAndDisplay(fetch_cache, response, "none")
    /\ UNCHANGED << bot_api_url_set, PYYAML_AVAILABLE, updated_settings,
                    st_errors, log_warnings >>

\* lines 241-244: "Retry Loading Settings"
ClickRetry ==
    /\ view = "error"
    /\ \E response \in FetchResponses :
            LoadAndDisplay(fetch_cache, response, api_outcome.save)
    /\ UNCHANGED << bot_api_url_set, PYYAML_AVAILABLE, updated_settings,
                    st_errors, log_warnings >>

\* lines 301-305: "Reload Settings from Bot"
ClickReload ==
    /\ view \in {"form", "waiting"}
    /\ \E response \in FetchResponses :
            LoadAndDisplay(NoCache, response, api_outcome.save)
    /\ UNCHANGED << bot_api_url_set, PYYAML_AVAILABLE, updated_settings,
                    st_errors, log_warnings >>

\* line 25: the cached result is older than ttl=30
CacheExpire ==
    /\ fetch_cache # NoCache
    /\ fetch_cache' = NoCache
    /\ UNCHANGED << bot_api_url_set, PYYAML_AVAILABLE, current_settings_data,
                    settings_fetch_error, session_widgets, view,
                    updated_settings, st_errors, log_warnings, api_outcome >>

EditValue(key, widget) ==
    /\ ~widget.disabled
    /\ \E value \in UserValues(widget) :
          /\ value # session_widgets[key]
          /\ session_widgets' = [session_widgets EXCEPT ![key] = value]

\* The user changes a field of the form (no script run inside st.form).
EditWidget ==
    /\ view = "form"
    /\ \E key \in DOMAIN session_widgets :
          EditValue(key, WidgetOf(render_form(current_settings_data, PYYAML_AVAILABLE), key))
    /\ UNCHANGED << bot_api_url_set, PYYAML_AVAILABLE, current_settings_data,
                    settings_fetch_error, fetch_cache, view, updated_settings,
                    st_errors, log_warnings, api_outcome >>

\* lines 287-295: after save_settings_via_api returned (or raised)
AfterSave(saved) ==
    IF saved.raised
    THEN /\ view' = "exception"
         /\ api_outcome' = [api_outcome EXCEPT !.save = "raised"]
         /\ UNCHANGED << current_settings_data, settings_fetch_error,
                         session_widgets, fetch_cache >>
    ELSE IF saved.ok
    THEN \E response \in FetchResponses : LoadAndDisplay(NoCache, response, "ok")
    ELSE /\ api_outcome' = [api_outcome EXCEPT !.save = "error"]
         /\ UNCHANGED << current_settings_data, settings_fetch_error,
                         session_widgets, fetch_cache, view >>

\* lines 277-286: the payload is built, then posted
SaveBuilt(built) ==
    /\ updated_settings' = built.val
    /\ st_errors' = built.errs
    /\ log_warnings' = built.warns
    /\ \E posted \in SaveResponses :
          AfterSave(save_settings_via_api(bot_api_url_set, built.val, posted))

\* lines 275-295: "Save Settings to Bot"
Submit ==
    /\ view = "form"
    /\ SaveBuilt(build_updated_settings(current_settings_data, <<>>,
                                        session_widgets, PYYAML_AVAILABLE))
    /\ UNCHANGED << bot_api_url_set, PYYAML_AVAILABLE >>

Next == PageLoad \/ ClickRetry \/ ClickReload \/ CacheExpire \/ EditWidget \/ Submit

Spec == Init /\ [][Next]_vars

----------------------------------------------------------------------------
(* build_updated_settings on its own: any settings mapping, any content of *)
(* the edit store.                                                         *)

LeafCount(settings) == Len(render_form(settings, FALSE))

\* Text blocks are tried on the mappings with one leaf.
EditValues(settings) ==
    IF LeafCount(settings) <= 1 THEN WidgetValues ELSE CoreValues

InitRebuild ==
    /\ bot_api_url_set = TRUE
    /\ PYYAML_AVAILABLE \in BOOLEAN
    /\ current_settings_data \in Trees
    /\ settings_fetch_error = NoneV
    /\ session_widgets = NoWidgets
    /\ fetch_cache = NoCache
    /\ view = "input"
    /\ updated_settings = NoneV
    /\ st_errors = <<>>
    /\ log_warnings = <<>>
    /\ api_outcome = [fetch |-> "data", save |-> "none"]

PutWidgets(widgets) ==
    /\ ~DuplicateWidgetKey(widgets)
    /\ session_widgets' = WidgetState(widgets, NoWidgets)

\* The form is drawn: every widget holds the value render_setting gave it.
RenderWidgets ==
    /\ view = "input"
    /\ PutWidgets(render_form(current_settings_data, PYYAML_AVAILABLE))
    /\ UNCHANGED << bot_api_url_set, PYYAML_AVAILABLE, current_settings_data,
                    settings_fetch_error, fetch_cache, view, updated_settings,
                    st_errors, log_warnings, api_outcome >>

PutValue(keys, values) ==
    \E key \in keys, value \in values :
        session_widgets' =
            [k \in DOMAIN session_widgets \cup {key} |->
                IF k = key THEN value ELSE session_widgets[k]]

\* The edit store gets a value of any kind under a widget key.
SetWidget ==
    /\ view = "input"
    /\ PutValue(WidgetKeys(render_form(current_settings_data, PYYAML_AVAILABLE)),
                EditValues(current_settings_data))
    /\ UNCHANGED << bot_api_url_set, PYYAML_AVAILABLE, current_settings_data,
                    settings_fetch_error, fetch_cache, view, updated_settings,
                    st_errors, log_warnings, api_outcome >>

\* A widget key leaves the edit store.
DelWidget ==
    /\ view = "input"
    /\ \E key \in DOMAIN session_widgets :
          session_widgets' = [k \in DOMAIN session_widgets \ {key} |-> session_widgets[k]]
    /\ UNCHANGED << bot_api_url_set, PYYAML_AVAILABLE, current_settings_data,
                    settings_fetch_error, fetch_cache, view, updated_settings,
                    st_errors, log_warnings, api_outcome >>

TakeBuilt(built) ==
    /\ updated_settings' = built.val
    /\ st_errors' = built.errs
    /\ log_warnings' = built.warns

\* line 279: updated_settings = build_updated_settings(settings_data_to_display, [])
Rebuild ==
    /\ view = "input"
    /\ view' = "rebuilt"
    /\ TakeBuilt(build_updated_settings(current_settings_data, <<>>,
                                        session_widgets, PYYAML_AVAILABLE))
    /\ UNCHANGED << bot_api_url_set, PYYAML_AVAILABLE, current_settings_data,
                    settings_fetch_error, session_widgets, fetch_cache, api_outcome >>

NextRebuild == RenderWidgets \/ SetWidget \/ DelWidget \/ Rebuild

SpecRebuild == InitRebuild /\ [][NextRebuild]_vars

----------------------------------------------------------------------------
(* Properties *)

Keys(d) == {d.v[i].k : i \in 1..Len(d.v)}

RECURSIVE LeafPaths(_, _)
LeafPaths(value, path) ==
    IF value.t = "dict"
    THEN UNION {LeafPaths(value.v[i].val, Append(path, value.v[i].k)) : i \in 1..Len(value.v)}
    ELSE {path}

\* Every location below the root: leaves and sub-mappings.
RECURSIVE KeyPaths(_, _)
KeyPaths(value, path) ==
    (IF path = <<>> THEN {} ELSE {path})
    \cup (IF value.t = "dict"
          THEN UNION {KeyPaths(value.v[i].val, Append(path, value.v[i].k)) : i \in 1..Len(value.v)}
          ELSE {})

RECURSIVE ValueAt(_, _)
ValueAt(value, path) ==
    IF path = <<>> THEN value
    ELSE ValueAt(dict_get(value, Head(path), NoneV), Tail(path))

LastKey(path) == path[Len(path)]

Original(path) == ValueAt(current_settings_data, path)

Updated(path) == ValueAt(updated_settings, path)

Leaves == LeafPaths(current_settings_data, <<>>)

Edited(path) == unique_key(path) \in DOMAIN session_widgets

WidgetValue(path) == session_widgets[unique_key(path)]

Rebuilt == view = "rebuilt"

RECURSIVE SameKeys(_, _)
SameKeys(original, updated) ==
    original.t = "dict" =>
        /\ updated.t = "dict"
        /\ Len(updated.v) = Len(original.v)
        /\ Keys(updated) = Keys(original)
        /\ \A key \in Keys(original) :
              SameKeys(dict_get(original, key, NoneV), dict_get(updated, key, NoneV))

\* C1: build_updated_settings returns a mapping with exactly the keys of the
\* original at every nesting level of mappings, and every sub-mapping of the
\* original is a mapping in the result, whatever the edit store holds.
C1_SameKeysEverywhere ==
    Rebuilt => SameKeys(current_settings_data, updated_settings)

\* A rebuilt mapping with a section, one field whose edit was refused and one
\* field absent from the edit store.
C1_Witness ==
    /\ Rebuilt
    /\ \E path \in Leaves : Len(path) >= 2 /\ ~Edited(path)
    /\ st_errors # <<>>
    /\ updated_settings # NoneV

\* C2: two distinct key paths of a settings tree (leaves or sub-mappings)
\* never join to the same widget identifier.
C2_KeyPathInjective ==
    \A p, q \in KeyPaths(current_settings_data, <<>>) :
        p # q => unique_key(p) # unique_key(q)

SupportedLeaf(path) == Original(path).t # "other"

ItemTags(value) == {value.v[i].t : i \in 1..Len(value.v)}

\* The type of a value as the data model names it: a list by its items.
SameType(original, updated) ==
    /\ updated.t = original.t
    /\ original.t = "list" => ItemTags(updated) \subseteq ItemTags(original)

IsNumber(value) == value.t \in {"bool", "int", "float"}

C4_RoundTrip ==
    (Rebuilt /\ ~DuplicateWidgetKey(render_form(current_settings_data, PYYAML_AVAILABLE))
       /\ session_widgets = WidgetState(render_form(current_settings_data, PYYAML_AVAILABLE),
                                        NoWidgets))
    => updated_settings = current_settings_data

Refused(path) ==
    /\ Original(path).t \in {"int", "float"}
    /\ Edited(path)
    /\ (IF Original(path).t = "int" THEN py_int(WidgetValue(path))
        ELSE py_float(WidgetValue(path))).exc # "none"

Count(seq, Test(_)) == Cardinality({i \in 1..Len(seq) : Test(seq[i])})

ValidNumbers == {IntV(3), FloatV(370)}

WithValue(path, value) ==
    [k \in DOMAIN session_widgets |->
        IF k = unique_key(path) THEN value ELSE session_widgets[k]]

RefusalKinds == {"ValueError", "Exception"}

RefusalWarnings(path) ==
    Count(log_warnings,
          LAMBDA w : w.widget_key = unique_key(path) /\ w.what \in RefusalKinds)

\* Leaves with the label of path whose edit was refused.
RefusedNamesakes(path) ==
    {q \in Leaves : LastKey(q) = LastKey(path) /\ RefusalWarnings(q) > 0}

\* C5: an int or float leaf whose edit is no number keeps its original value,
\* with exactly one diagnostic for its path (one logged for its widget, one
\* shown under its label), and every other leaf is rebuilt to the value it
\* would have had if that edit had been a number.
C5_GracefulCoercionFailure ==
    Rebuilt => \A path \in Leaves :
        Refused(path) =>
            /\ Updated(path) = Original(path)
            /\ RefusalWarnings(path) = 1
            /\ Count(st_errors, LAMBDA e : e.field = LastKey(path))
                 = Cardinality(RefusedNamesakes(path))
            /\ \A value \in ValidNumbers, other \in Leaves \ {path} :
                  Updated(other) =
                    ValueAt(build_updated_settings(current_settings_data, <<>>,
                                WithValue(path, value), PYYAML_AVAILABLE).val, other)

\* C6: a tree held in session state before a fetch attempt is still held,
\* unchanged, after the attempt fails.
C6_PriorTreeKept ==
    [][(current_settings_data # NoneV /\ settings_fetch_error' # NoneV)
         => current_settings_data' = current_settings_data]_vars

\* C7: save_settings_via_api and fetch_settings_data_from_api return a
\* result and never raise.
C7_NeverRaises ==
    api_outcome.fetch # "raised" /\ api_outcome.save # "raised"

DigitLines(text) == SelectSeq(StripAll(splitlines(text)), isdigit)

OtherLines(text) ==
    SelectSeq(StripAll(splitlines(text)), LAMBDA l : l # <<>> /\ ~isdigit(l))

SerialWarnings(path) ==
    SelectSeq(log_warnings, LAMBDA w : w.widget_key = unique_key(path))

\* C8: a serial_numbers list edited as text is rebuilt to the integers of the
\* trimmed all-digit lines in order; every other non-empty line gives one
\* diagnostic, blank lines none, and the field never falls back.
C8_SerialNumbers ==
    Rebuilt => \A path \in Leaves :
        (/\ LastKey(path) = K_serial_numbers /\ Original(path).t = "list"
         /\ Edited(path) /\ WidgetValue(path).t = "str")
        => LET digits == DigitLines(WidgetValue(path).v)
               others == OtherLines(WidgetValue(path).v)
           IN  /\ Updated(path).t = "list"
               /\ Len(Updated(path).v) = Len(digits)
               /\ \A i \in 1..Len(digits) : IntOfStr(digits[i]) = Ok(Updated(path).v[i])
               /\ SerialWarnings(path) =
                    [i \in 1..Len(others) |->
                        Warning(unique_key(path), "invalid_serial", others[i])]

\* C9: a leaf shown as a disabled widget has its original value in the
\* rebuilt tree, whatever the widget's stored string is.
C9_ReadOnlyKept ==
    Rebuilt => \A path \in Leaves :
        LeafWidget(path, Original(path), PYYAML_AVAILABLE).disabled
            => Updated(path) = Original(path)

\* C10: once a fetch has returned a settings mapping, the page shows the
\* editor form, not "Waiting for settings data to load...".
C10_FormAfterFetch ==
    (current_settings_data # NoneV /\ settings_fetch_error = NoneV /\ view # "exception")
        => view = "form"

====
